---- MODULE Spec2Model ----
(***************************************************************************)
(* UserRepository of src/repositories/user_repository.py: the repository  *)
(* over the Users table of one sqlite3 connection, with bcrypt password    *)
(* hashing.                                                                *)
(*                                                                         *)
(* Strings are sequences of code points, byte strings sequences of bytes.  *)
(* A row is the tuple <<id, username, password>> (row[0], row[1], row[2]   *)
(* of the code are positions 1, 2, 3 here).  The caller is one synchronous *)
(* thread: one call at a time, create stepping through its statements.     *)
(*                                                                         *)
(* The connection is the caller's: each of its calls (cursor, execute,     *)
(* commit) either succeeds or raises sqlite3.DatabaseError.  A statement   *)
(* that raises changes nothing (sqlite3 statement atomicity); a commit     *)
(* that raises leaves the transaction open (SQLITE_BUSY).                  *)
(***************************************************************************)
EXTENDS Integers, Sequences, FiniteSets, TLC

\* ---------------------------------------------------------------- bounds
\* Most rows the Users table holds.
MaxRows == 2

\* bcrypt reads at most this many bytes of a password.
BcryptMaxBytes == 72

Usernames == {"alice", "bob"}

\* "é" repeated 36 times: 36 characters, 72 bytes in UTF-8.
Pad72 == [i \in 1..(BcryptMaxBytes \div 2) |-> 233]

\* The plaintexts verify_password is tried on: "a", "b", a password of
\* exactly 72 bytes, and two of 73 bytes that differ in the last byte.
Plaintexts == {<<97>>, <<98>>, Pad72, Pad72 \o <<97>>, Pad72 \o <<98>>}

\* The passwords create is called with: a short and a long one.
Passwords == {<<97>>, Pad72 \o <<97>>}

\* The salts bcrypt.gensalt() draws from.
Salts == {1, 2}

\* -------------------------------------------------------------- variables
VARIABLES
    table,        \* the Users rows the connection sees, in rowid order
    pending,      \* rows inserted on the connection and not yet committed
    origin,       \* per row: the plaintext its create call was given (history)
    created,      \* the create calls that returned, in order: the username
                  \* and password given and the id returned (history)
    pc,           \* position of the caller: "idle" or a statement of create
    call,         \* locals of the running create call
    trace,        \* statements the running create call has executed
    ret,          \* outcome of the last finished call
    truncates     \* the installed bcrypt: TRUE truncates a password to 72
                  \* bytes (bcrypt < 5), FALSE raises ValueError (bcrypt >= 5)

vars == <<table, pending, origin, created, pc, call, trace, ret, truncates>>

\* ------------------------------------------------------- str.encode/decode
\* One code point in UTF-8.
Utf8Char(c) ==
    IF c < 128 THEN <<c>>
    ELSE IF c < 2048 THEN <<192 + (c \div 64), 128 + (c % 64)>>
    ELSE <<224 + (c \div 4096), 128 + ((c \div 64) % 64), 128 + (c % 64)>>

RECURSIVE Encode(_)
\* password.encode("utf-8"): the characters' encodings, concatenated.  An
\* ASCII string is its own encoding; any other is split in halves.
Encode(s) ==
    IF \A i \in 1..Len(s) : s[i] < 128 THEN [i \in 1..Len(s) |-> s[i]]
    ELSE IF Len(s) = 1 THEN Utf8Char(s[1])
    ELSE Encode(SubSeq(s, 1, Len(s) \div 2))
           \o Encode(SubSeq(s, Len(s) \div 2 + 1, Len(s)))

\* hashed.decode("utf-8") of a bcrypt hash, which is ASCII: one character
\* per byte.
Decode(b) == [i \in 1..Len(b) |-> b[i]]

\* ------------------------------------------------------------------ bcrypt
\* Two letters "A".."P" for each byte.
HexBytes(bs) ==
    [i \in 1..(2 * Len(bs)) |->
        IF i % 2 = 1 THEN 65 + (bs[(i + 1) \div 2] \div 16)
                     ELSE 65 + (bs[i \div 2] % 16)]

\* The first 72 bytes of a password: all bcrypt reads of it.
Truncate(bytes) ==
    IF Len(bytes) > BcryptMaxBytes THEN SubSeq(bytes, 1, BcryptMaxBytes) ELSE bytes

\* bcrypt.gensalt(): "$" and the salt character.
GenSalt(s) == <<36, 48 + s>>

\* The salt a salt string or a hash string starts with.
SaltOf(h) == h[2] - 48

\* The digest of a key under a salt: a one-to-one function of both
\* (collisions of the real digest are left out).
Digest(salt, key) == HexBytes([i \in 1..Len(key) |-> (key[i] + salt) % 256])

\* Whether this bcrypt raises ValueError for the password.
BcryptRejects(bytes) == ~truncates /\ Len(bytes) > BcryptMaxBytes

\* bcrypt.hashpw(password, salt): the salt prefix of `salt`, then the digest.
HashPw(bytes, salt) ==
    GenSalt(SaltOf(salt)) \o Digest(SaltOf(salt), Truncate(bytes))

\* A comparison of the salt prefixes alone.
CheckPwSaltOnly(bytes, hashed) ==
    SubSeq(HashPw(bytes, hashed), 1, 2) = SubSeq(hashed, 1, 2)

\* bcrypt.checkpw(password, hashed): hash again under the salt of `hashed`
\* and compare.
CheckPw(bytes, hashed) == HashPw(bytes, hashed) = hashed

\* _hash_password(password) with the salt gensalt drew.
HashPassword(password, s) == Decode(HashPw(Encode(password), GenSalt(s)))

\* verify_password(password, hashed_password)
VerifyPassword(password, hashed_password) ==
    CheckPw(Encode(password), Encode(hashed_password))

\* ------------------------------------------------------------------- User
\* User(username, password, id)
User(username, password, id) ==
    [username |-> username, password |-> password, id |-> id]

\* User(row[1], row[2], row[0])
UserOfRow(row) == User(row[2], row[3], row[1])

\* --------------------------------------------------------------- outcomes
\* `before` is the number of rows when the call started.
NoCall ==
    [username |-> "", password |-> <<>>, hashed |-> <<>>, lastrowid |-> 0,
     before |-> 0]

NoRet == [op |-> "none", kind |-> "none"]

\* The call returned `value`.
Returned(op, arg, value) ==
    [op |-> op, kind |-> "value", arg |-> arg, value |-> value]

\* The call returned None.
ReturnedNone(op, arg) == [op |-> op, kind |-> "None", arg |-> arg]

\* The call raised `error`; `cause` is the exception it was raised from
\* ("none" when it was not raised from one); `failed` is the connection
\* call that raised sqlite3.DatabaseError ("none" when none did).
Raised(op, arg, error, cause, failed) ==
    [op |-> op, kind |-> "raised", arg |-> arg, error |-> error,
     cause |-> cause, failed |-> failed]

\* The outcome of a create call, with the statements it executed and the
\* number of rows it started from.
CreateOutcome(outcome, statements) ==
    [outcome EXCEPT !.arg = [username |-> call.username,
                             password |-> call.password,
                             trace |-> statements,
                             before |-> call.before]]

\* ------------------------------------------------------------------- Init
Init ==
    /\ table = <<>>
    /\ pending = 0
    /\ origin = <<>>
    /\ created = <<>>
    /\ pc = "idle"
    /\ call = NoCall
    /\ trace = <<>>
    /\ ret = NoRet
    /\ truncates \in BOOLEAN

\* ------------------------------------------------------------------ reads
\* The rows in descending rowid order.
SelectAllDescending == [i \in 1..Len(table) |-> table[Len(table) + 1 - i]]

\* The rows "SELECT * FROM Users" yields.
SelectAll == table

\* The query without its WHERE clause.
SelectByUsernameUnfiltered(username) == table

\* The rows "SELECT * FROM Users WHERE username = ?" yields.
SelectByUsername(username) == SelectSeq(table, LAMBDA row : row[2] = username)

\* find_all(): the outcome, given whether cursor() and execute() succeed.
FindAllOutcome(cursorOk, executeOk) ==
    IF ~cursorOk
      THEN Raised("find_all", <<>>, "DatabaseError", "none", "cursor")
    ELSE IF ~executeOk
      THEN Raised("find_all", <<>>, "DatabaseFindAllError", "DatabaseError", "execute")
    ELSE IF SelectAll # <<>>
      THEN Returned("find_all", <<>>,
                    [i \in 1..Len(SelectAll) |-> UserOfRow(SelectAll[i])])
    ELSE ReturnedNone("find_all", <<>>)

\* find_all()
FindAll ==
    /\ pc = "idle"
    /\ \E cursorOk, executeOk \in BOOLEAN : ret' = FindAllOutcome(cursorOk, executeOk)
    /\ UNCHANGED <<table, pending, origin, created, pc, call, trace, truncates>>

\* find_by_username raising its error when no row matches.
FindByUsernameOutcomeStrict(username, cursorOk, executeOk) ==
    IF cursorOk /\ executeOk /\ \A i \in 1..Len(table) : table[i][2] # username
      THEN Raised("find_by_username", username,
                  "DatabaseFindByUsernameError", "none", "none")
    ELSE IF ~cursorOk
      THEN Raised("find_by_username", username, "DatabaseError", "none", "cursor")
    ELSE IF ~executeOk
      THEN Raised("find_by_username", username,
                  "DatabaseFindByUsernameError", "DatabaseError", "execute")
    ELSE Returned("find_by_username", username,
                  UserOfRow(Head(SelectSeq(table, LAMBDA row : row[2] = username))))

\* find_by_username(username): the outcome.
FindByUsernameOutcome(username, cursorOk, executeOk) ==
    IF ~cursorOk
      THEN Raised("find_by_username", username, "DatabaseError", "none", "cursor")
    ELSE IF ~executeOk
      THEN Raised("find_by_username", username,
                  "DatabaseFindByUsernameError", "DatabaseError", "execute")
    ELSE IF SelectByUsername(username) # <<>>
      THEN Returned("find_by_username", username,
                    UserOfRow(Head(SelectByUsername(username))))
    ELSE ReturnedNone("find_by_username", username)

\* find_by_username(username)
FindByUsername ==
    /\ pc = "idle"
    /\ \E username \in Usernames, cursorOk, executeOk \in BOOLEAN :
         ret' = FindByUsernameOutcome(username, cursorOk, executeOk)
    /\ UNCHANGED <<table, pending, origin, created, pc, call, trace, truncates>>

\* ----------------------------------------------------------------- create
\* create(user), line 131: cursor = self._connection.cursor()
CreateCall ==
    /\ pc = "idle"
    /\ Len(table) < MaxRows
    /\ \E username \in Usernames, password \in Passwords, cursorOk \in BOOLEAN :
         LET started == [NoCall EXCEPT !.username = username,
                                       !.password = password,
                                       !.before = Len(table)]
         IN  IF cursorOk
               THEN /\ pc' = "hash"
                    /\ call' = started
                    /\ ret' = NoRet
               ELSE /\ pc' = "idle"
                    /\ call' = NoCall
                    /\ ret' = [Raised("create", <<>>, "DatabaseError", "none", "cursor")
                                 EXCEPT !.arg = [username |-> username,
                                                 password |-> password,
                                                 trace |-> <<>>,
                                                 before |-> Len(table)]]
    /\ trace' = <<>>
    /\ UNCHANGED <<table, pending, origin, created, truncates>>

\* line 133: hashed_password = self._hash_password(user.password)
CreateHash ==
    /\ pc = "hash"
    /\ IF BcryptRejects(Encode(call.password))
         THEN /\ pc' = "idle"
              /\ call' = NoCall
              /\ ret' = CreateOutcome(
                           Raised("create", <<>>, "ValueError", "none", "none"), trace)
              /\ trace' = <<>>
         ELSE \E s \in Salts :
              /\ pc' = "insert"
              /\ call' = [call EXCEPT !.hashed = HashPassword(call.password, s)]
              /\ ret' = ret
              /\ trace' = Append(trace, "hash")
    /\ UNCHANGED <<table, pending, origin, created, truncates>>

\* The plaintext password stored in place of the hash.
NewRowPlaintext == <<Len(table) + 1, call.username, call.password>>

\* The row "INSERT INTO Users (username, password) VALUES (?, ?)" adds for
\* (user.username, hashed_password); the store assigns the next rowid.
NewRow == <<Len(table) + 1, call.username, call.hashed>>

\* INSERT OR REPLACE: the new row takes the place of the rows of its username.
CreateInsertOrReplace ==
    /\ pc = "insert"
    /\ table' = Append(SelectSeq(table, LAMBDA row : row[2] # call.username),
                       <<Len(table) + 1, call.username, call.hashed>>)
    /\ origin' = Append(origin, call.password)
    /\ pending' = pending + 1
    /\ call' = [call EXCEPT !.lastrowid = Len(table) + 1]
    /\ pc' = "commit"
    /\ trace' = Append(trace, "insert")
    /\ UNCHANGED <<created, ret, truncates>>

\* lines 135-143: the INSERT, and DatabaseCreateError from a DatabaseError
CreateInsert ==
    /\ pc = "insert"
    /\ \E executeOk \in BOOLEAN :
         IF executeOk
           THEN /\ table' = Append(table, NewRow)
                /\ origin' = Append(origin, call.password)
                /\ pending' = pending + 1
                /\ call' = [call EXCEPT !.lastrowid = NewRow[1]]
                /\ pc' = "commit"
                /\ ret' = ret
                /\ trace' = Append(trace, "insert")
           ELSE /\ pc' = "idle"
                /\ call' = NoCall
                /\ ret' = CreateOutcome(
                             Raised("create", <<>>, "DatabaseCreateError",
                                    "DatabaseError", "execute"),
                             Append(trace, "insert failed"))
                /\ trace' = <<>>
                /\ UNCHANGED <<table, origin, pending>>
    /\ UNCHANGED <<created, truncates>>

\* The commit with its failure swallowed: the call goes on to return the id.
CreateCommitSwallowed ==
    /\ pc = "commit"
    /\ \E commitOk \in BOOLEAN :
         /\ pending' = IF commitOk THEN 0 ELSE pending
         /\ trace' = Append(trace, IF commitOk THEN "commit" ELSE "commit failed")
    /\ pc' = "return"
    /\ UNCHANGED <<table, origin, created, call, ret, truncates>>

\* line 145: self._connection.commit()
CreateCommit ==
    /\ pc = "commit"
    /\ \E commitOk \in BOOLEAN :
         IF commitOk
           THEN /\ pending' = 0
                /\ pc' = "return"
                /\ call' = call
                /\ ret' = ret
                /\ trace' = Append(trace, "commit")
           ELSE /\ pending' = pending
                /\ pc' = "idle"
                /\ call' = NoCall
                /\ ret' = CreateOutcome(
                             Raised("create", <<>>, "DatabaseError", "none", "commit"),
                             Append(trace, "commit failed"))
                /\ trace' = <<>>
    /\ UNCHANGED <<table, origin, created, truncates>>

\* line 147: return cursor.lastrowid
CreateReturn ==
    /\ pc = "return"
    /\ ret' = CreateOutcome(Returned("create", <<>>, call.lastrowid),
                            Append(trace, "return"))
    /\ created' = Append(created, [username |-> call.username,
                                   password |-> call.password,
                                   id |-> call.lastrowid])
    /\ pc' = "idle"
    /\ call' = NoCall
    /\ trace' = <<>>
    /\ UNCHANGED <<table, pending, origin, truncates>>

\* ------------------------------------------------- hashing and verifying
\* verify_password(p, h): the outcome; h was produced from q (history).
VerifyOutcome(p, q, h) ==
    LET arg == [password |-> p, of |-> q, hashed |-> h]
    IN  IF BcryptRejects(Encode(p))
          THEN Raised("verify_password", arg, "ValueError", "none", "none")
          ELSE Returned("verify_password", arg, VerifyPassword(p, h))

\* _hash_password(q) alone, with the salt gensalt drew.
Hash ==
    /\ pc = "idle"
    /\ \E q \in Plaintexts, s \in Salts :
         ret' = IF BcryptRejects(Encode(q))
                  THEN Raised("_hash_password", [password |-> q, salt |-> s],
                              "ValueError", "none", "none")
                  ELSE Returned("_hash_password", [password |-> q, salt |-> s],
                                HashPassword(q, s))
    /\ UNCHANGED <<table, pending, origin, created, pc, call, trace, truncates>>

\* verify_password(p, h) for the hash h the last _hash_password call returned.
Verify ==
    /\ pc = "idle"
    /\ ret.op = "_hash_password"
    /\ ret.kind = "value"
    /\ \E p \in Plaintexts : ret' = VerifyOutcome(p, ret.arg.password, ret.value)
    /\ UNCHANGED <<table, pending, origin, created, pc, call, trace, truncates>>

\* verify_password(p, user.password) for the password stored in a row.
VerifyStored ==
    /\ pc = "idle"
    /\ \E p \in Passwords, i \in 1..Len(table) :
         ret' = VerifyOutcome(p, origin[i], table[i][3])
    /\ UNCHANGED <<table, pending, origin, created, pc, call, trace, truncates>>

\* ------------------------------------------------------- specifications
Next ==
    \/ FindAll
    \/ FindByUsername
    \/ VerifyStored
    \/ CreateCall
    \/ CreateHash
    \/ CreateInsert
    \/ CreateCommit
    \/ CreateReturn

\* The repository over one connection.
Spec == Init /\ [][Next]_vars

NextHash == Hash \/ Verify

\* The password functions alone, on every plaintext and salt.
SpecHash == Init /\ [][NextHash]_vars

\* ------------------------------------------------------------- properties
Rows == 1..Len(table)

\* The statements of the create call that is running or has just finished.
CreateTrace ==
    IF pc # "idle" THEN trace
    ELSE IF ret.op = "create" THEN ret.arg.trace
    ELSE <<>>

\* C1: every row create wrote holds in its password column the output of
\* _hash_password on the plaintext the caller gave, never the plaintext, and
\* every User that find_all or find_by_username returns carries the
\* password column of its row as stored.
StoredPasswordIsHash ==
    /\ Len(origin) = Len(table)
    /\ \A i \in Rows :
         /\ table[i][3] # origin[i]
         /\ \E s \in Salts : table[i][3] = HashPassword(origin[i], s)
    /\ (ret.op = "find_all" /\ ret.kind = "value") =>
         /\ Len(ret.value) = Len(table)
         /\ \A i \in Rows : ret.value[i].password = table[i][3]
    /\ (ret.op = "find_by_username" /\ ret.kind = "value") =>
         \E i \in Rows : /\ table[i][1] = ret.value.id
                          /\ ret.value.password = table[i][3]

\* Both reads have returned users of a table create wrote to.
StoredPasswordIsHashWitness ==
    /\ Len(table) = 2
    /\ ret.op = "find_by_username"
    /\ ret.kind = "value"
    /\ ret.value.id = 2

\* The error each operation documents for a storage failure.
TypedError(op) ==
    CASE op = "find_all" -> "DatabaseFindAllError"
      [] op = "find_by_username" -> "DatabaseFindByUsernameError"
      [] op = "create" -> "DatabaseCreateError"
      [] OTHER -> "none"

\* C2: a storage failure during find_all, find_by_username or create reaches
\* the caller as that operation's own error, raised from the storage error.
StorageFailureIsTyped ==
    (ret.kind = "raised" /\ ret.failed # "none") =>
        /\ ret.error = TypedError(ret.op)
        /\ ret.cause = "DatabaseError"

\* C3: a create call in which a storage failure occurred ends in
\* DatabaseCreateError, has not issued commit and has added no row.
FailedCreateCommitsNothing ==
    (ret.op = "create" /\ ret.kind = "raised" /\ ret.failed # "none") =>
        /\ ret.error = "DatabaseCreateError"
        /\ \A k \in 1..Len(ret.arg.trace) :
             ret.arg.trace[k] \notin {"commit", "commit failed"}
        /\ Len(table) = ret.arg.before

\* The statements of a create call in t before position k.
Before(t, k, statements) == \E j \in 1..(k - 1) : t[j] \in statements

\* C4: a create call hashes, then inserts, then commits, then returns the
\* id: no insert before the hash, at most one commit and only after the
\* call's insert succeeded, the id returned only after the commit succeeded,
\* and a call that returned an id has done each of the four once.
CreateStepsInOrder ==
    LET t == CreateTrace
    IN  /\ \A k \in 1..Len(t) :
             /\ t[k] \in {"insert", "insert failed"} => Before(t, k, {"hash"})
             /\ t[k] \in {"commit", "commit failed"} =>
                  /\ Before(t, k, {"insert"})
                  /\ ~Before(t, k, {"commit", "commit failed", "insert failed"})
             /\ t[k] = "return" => Before(t, k, {"commit"})
        /\ (ret.op = "create" /\ ret.kind = "value") =>
             /\ t = <<"hash", "insert", "commit", "return">>
             /\ pending = 0
             /\ Len(table) = ret.arg.before + 1
             /\ table[Len(table)][1] = ret.value

\* A create call has returned an id.
CreateStepsInOrderWitness ==
    /\ ret.op = "create"
    /\ ret.kind = "value"
    /\ ret.arg.before = 1

\* The create call created[k] found no row of its username in the table.
WasNewUsername(k) ==
    \A i \in Rows : table[i][2] = created[k].username => table[i][1] >= created[k].id

\* C5: a create call that returned, made when no row had its username,
\* returned a positive id, and find_by_username of that username then
\* returns the user with that id and username, whose password is not the
\* plaintext and verifies against it.
CreateThenFindByUsername ==
    \A k \in 1..Len(created) :
        WasNewUsername(k) =>
            /\ created[k].id > 0
            /\ (ret.op = "find_by_username" /\ ret.kind # "raised"
                   /\ ret.arg = created[k].username) =>
                 /\ ret.kind = "value"
                 /\ ret.value.id = created[k].id
                 /\ ret.value.username = created[k].username
                 /\ ret.value.password # created[k].password
                 /\ ~BcryptRejects(Encode(created[k].password))
                 /\ VerifyPassword(created[k].password, ret.value.password)

\* find_by_username has returned the user of the second create call, made
\* with the long password.
CreateThenFindByUsernameWitness ==
    /\ Len(created) = 2
    /\ WasNewUsername(2)
    /\ Len(created[2].password) > 1
    /\ ret.op = "find_by_username"
    /\ ret.kind = "value"
    /\ ret.arg = created[2].username

\* The rows whose username is u.
Matching(u) == {i \in Rows : table[i][2] = u}

\* C6: find_by_username raises only on a storage failure; otherwise it
\* returns None when no row has the username, and one User, built from a
\* row with that username, when some row has.
FindByUsernameResult ==
    ret.op = "find_by_username" =>
        /\ ret.kind = "raised" => ret.failed # "none"
        /\ (ret.kind # "raised" /\ Matching(ret.arg) = {}) => ret.kind = "None"
        /\ (ret.kind # "raised" /\ Matching(ret.arg) # {}) =>
             /\ ret.kind = "value"
             /\ \E i \in Matching(ret.arg) :
                  ret.value = [username |-> table[i][2], password |-> table[i][3],
                               id |-> table[i][1]]

\* find_by_username has returned None on a table whose two rows have the
\* other username.
FindByUsernameResultWitness ==
    /\ ret.op = "find_by_username"
    /\ ret.kind = "None"
    /\ Len(table) = 2
    /\ table[1][2] = table[2][2]

FitsBcrypt(p) == Len(Encode(p)) <= BcryptMaxBytes

\* C8 as stated: for a hash h of q, verify_password(p, h) returns a value,
\* and returns True exactly when p = q.
VerifyIffEqual ==
    ret.op = "verify_password" =>
        /\ ret.kind = "value"
        /\ ret.value <=> (ret.arg.password = ret.arg.of)

\* C8, amended: for plaintexts p and q of at most 72 bytes in UTF-8 and a
\* hash h of q, verify_password(p, h) returns a value, never raises, and
\* returns True exactly when p = q; the call leaves the table, the
\* transaction and the history of create calls as they were.
VerifyIffEqualWithin72Bytes ==
    ret.op = "verify_password" =>
        /\ (FitsBcrypt(ret.arg.password) /\ FitsBcrypt(ret.arg.of)) =>
             /\ ret.kind = "value"
             /\ ret.value <=> (ret.arg.password = ret.arg.of)
        /\ table = <<>>
        /\ pending = 0
        /\ created = <<>>
        /\ pc = "idle"

\* verify_password has returned False for a plaintext of exactly 72 bytes
\* against the hash of another plaintext.
VerifyIffEqualWithin72BytesWitness ==
    /\ ret.op = "verify_password"
    /\ ret.kind = "value"
    /\ ~ret.value
    /\ Len(Encode(ret.arg.password)) = BcryptMaxBytes
    /\ FitsBcrypt(ret.arg.of)

\* C10: every step keeps each row as it is and adds at most one row at the
\* end; find_all, find_by_username and verify_password, returning or
\* raising, leave the table and the open transaction unchanged; and the
\* table has one row per successful INSERT.
RowsOnlyAdded ==
    /\ [][/\ Len(table') \in {Len(table), Len(table) + 1}
          /\ \A i \in Rows : table'[i] = table[i]
          /\ (pc = "idle" /\ ret'.op \in {"find_all", "find_by_username",
                                           "verify_password"}) =>
                (table' = table /\ pending' = pending)]_vars
    /\ [](Len(table) = Len(origin))

\* A read has raised with a row inserted and not committed.
RowsOnlyAddedWitness ==
    /\ ret.op \in {"find_all", "find_by_username"}
    /\ ret.kind = "raised"
    /\ Len(table) = 2
    /\ pending = 1

====
